---- MODULE Spec2Model ----
(***************************************************************************)
(* komodo-op: one-way synchronisation of 1Password vault items into        *)
(* Komodo secret variables.  The module models Synchronizer.Run, the two   *)
(* API clients it drives and the name formatter it uses.                   *)
(*                                                                         *)
(* Strings the code inspects character by character (item titles, field    *)
(* labels, variable names) are sequences of one-character strings.         *)
(* Strings the code searches for a token (descriptions, error messages)    *)
(* are sequences of words.  Field values are opaque strings.               *)
(***************************************************************************)
EXTENDS Integers, Sequences, FiniteSets, TLC

(***************************************************************************)
(* Bounds of the model.                                                    *)
(***************************************************************************)
\* most items a vault holds
MaxItems == 2
\* most client calls that fail in one run
MaxFailures == 2

(***************************************************************************)
(* String helpers.                                                         *)
(***************************************************************************)
\* the characters \s of spaceRegex matches
Whitespace == {" ", "\t", "\n", "\r", "\f"}

LowerSeq == <<"a", "b", "c", "d", "e", "f", "g", "h", "i", "j", "k", "l", "m",
              "n", "o", "p", "q", "r", "s", "t", "u", "v", "w", "x", "y", "z">>

UpperSeq == <<"A", "B", "C", "D", "E", "F", "G", "H", "I", "J", "K", "L", "M",
              "N", "O", "P", "Q", "R", "S", "T", "U", "V", "W", "X", "Y", "Z">>

LowerChars == { LowerSeq[i] : i \in 1..Len(LowerSeq) }

UpperChars == { UpperSeq[i] : i \in 1..Len(UpperSeq) }

DigitChars == {"0", "1", "2", "3", "4", "5", "6", "7", "8", "9"}

\* the characters [a-zA-Z0-9_] that nonAlphanumericRegex leaves alone
WordChars == LowerChars \cup UpperChars \cup DigitChars \cup {"_"}

\* the upper-case letter of each lower-case letter
UpperOf ==
  [c \in LowerChars |-> UpperSeq[CHOOSE i \in 1..Len(LowerSeq) : LowerSeq[i] = c]]

\* strings.ToUpper on one character
ToUpperChar(c) == IF c \in LowerChars THEN UpperOf[c] ELSE c

\* strings.ToUpper
ToUpper(s) == [i \in 1..Len(s) |-> ToUpperChar(s[i])]

\* regexp.ReplaceAllString for a pattern of the shape [class]+ : every maximal
\* run of characters of the class is replaced by the one character repl
RECURSIVE ReplaceRuns(_, _, _)
ReplaceRuns(s, class, repl) ==
  IF s = <<>> THEN <<>>
  ELSE IF Head(s) \in class
       THEN IF Len(s) > 1 /\ s[2] \in class
            THEN ReplaceRuns(Tail(s), class, repl)
            ELSE <<repl>> \o ReplaceRuns(Tail(s), class, repl)
       ELSE <<Head(s)>> \o ReplaceRuns(Tail(s), class, repl)

\* the characters the model's titles and labels are made of
Alphabet == WordChars \cup Whitespace \cup {"-", "."}

\* the complement of [a-zA-Z0-9_] within the alphabet
NonWordChars == Alphabet \ WordChars

\* strings.Contains on word sequences: sub occurs contiguously in s
Contains(s, sub) ==
  \E i \in 0..(Len(s) - Len(sub)) :
     \A j \in 1..Len(sub) : s[i + j] = sub[j]

\* line 54 with a separator of one underscore
FormatSep_Single == <<"_">>

\* formatKomodoName with the separator written out
FormatSep == <<"_", "_">>

formatKomodoName(itemName, fieldLabel) ==
  LET safeItemName   == ToUpper(ReplaceRuns(ReplaceRuns(itemName, Whitespace, "-"),
                                            NonWordChars, "_"))
      safeFieldLabel == ToUpper(ReplaceRuns(ReplaceRuns(fieldLabel, Whitespace, "-"),
                                            NonWordChars, "_"))
  IN  IF fieldLabel = <<>> THEN safeItemName
      ELSE safeItemName \o FormatSep \o safeFieldLabel


(***************************************************************************)
(* The 1Password side: items, fields and the vaults built from them.       *)
(***************************************************************************)
Field(label, value) == [label |-> label, value |-> value]

Item(id, title, fields) == [id |-> id, title |-> title, fields |-> fields]

\* the items a vault of the model can hold; two entries with the same id are
\* the same item before and after an edit of its field
ItemCatalogue ==
  { Item(1, <<"a", " ", "b">>, << Field(<<"k">>, "x") >>),
    Item(1, <<"a", " ", "b">>, << Field(<<"k">>, "y") >>),
    Item(2, <<"c">>, << Field(<<>>, "x"), Field(<<"p">>, ""), Field(<<"p">>, "x") >>),
    Item(3, <<"A", "-", "B">>, << Field(<<"K">>, "y") >>),
    Item(4, <<"z">>, << >>) }

\* sequences of at most n catalogue items with pairwise different ids
RECURSIVE VaultsOfLen(_)
VaultsOfLen(n) ==
  IF n = 0 THEN { <<>> }
  ELSE { Append(v, it) : v \in VaultsOfLen(n - 1),
                         it \in ItemCatalogue }

DistinctIds(v) == \A i, j \in 1..Len(v) : i # j => v[i].id # v[j].id

Vaults == UNION { { v \in VaultsOfLen(n) : DistinctIds(v) } : n \in 0..MaxItems }

\* cfg.OpVaultUUID
OpVaultUUID == "vault-1"

(***************************************************************************)
(* The Komodo side: the variable store.                                    *)
(***************************************************************************)
\* managedByMarker
managedByMarker == "1Password-Sync:"

\* the description syncKomodoSecret gives to a variable it creates
ManagedDescription == <<managedByMarker, "Synced", "from", "1P", "vault", OpVaultUUID>>

\* a description written by somebody else
ManualDescription == <<"manual">>

\* VariableResponse, reduced to the fields the synchronizer reads or writes
Variable(value, description, secret) ==
  [value |-> value, description |-> description, is_secret |-> secret]

\* a variable name no item formats to
ForeignName == <<"O", "L", "D">>

\* names of variables present in the store before the first run
InitNames == { formatKomodoName(<<"a", " ", "b">>, <<"k">>),
               formatKomodoName(<<"c">>, <<"p">>),
               ForeignName }

\* stores the first run may find: each name absent, managed or manual
InitVariables == { Variable("o", ManagedDescription, TRUE),
                   Variable("o", ManualDescription, FALSE) }

InitStores == UNION { [names -> InitVariables] : names \in SUBSET InitNames }

MapPut(m, k, v) == [x \in DOMAIN m \cup {k} |-> IF x = k THEN v ELSE m[x]]

MapDel(m, k) == [x \in DOMAIN m \ {k} |-> m[x]]

EmptyMap == [x \in {} |-> x]


(***************************************************************************)
(* HTTP replies and the clients' reading of them.                          *)
(*                                                                         *)
(* A reply is its status code (0: the request never got an answer), whether*)
(* its body parses as an ErrorResponse, and the words of the error field.  *)
(***************************************************************************)
Reply(status, json, error) == [status |-> status, json |-> json, error |-> error]

\* http.StatusNotFound
StatusNotFound == 404

ReplyOk == Reply(200, TRUE, <<>>)

\* replies of a server or network that is failing
FailureReplies == { Reply(0, FALSE, <<>>),
                    Reply(500, TRUE, <<"internal", "Error">>),
                    Reply(502, FALSE, <<>>) }

\* the ways the store says that a variable does not exist
AbsentReplies == { Reply(StatusNotFound, FALSE, <<>>),
                   Reply(500, TRUE, <<"No", "variable", "found">>) }

\* strings.ToLower on one word
ToLowerWord(w) ==
  CASE w = "No" -> "no" [] w = "Not" -> "not" [] w = "Found" -> "found"
    [] w = "Error" -> "error" [] w = "Variable" -> "variable"
    [] OTHER -> w

\* strings.ToLower
ToLower(s) == [i \in 1..Len(s) |-> ToLowerWord(s[i])]

\* makeRequestGeneric / makeRequest: TRUE when the call returns an error
makeRequestFails(r) == r.status < 200 \/ r.status >= 300

\* makeRequest, lines 126-130: a body of a 2xx reply that is no JSON object
\* does not decode into the VariableResponse
decodeFails(r) == ~makeRequestFails(r) /\ ~r.json

\* Client.GetVariable: "found", "notfound" or "error"
GetVariable(r) ==
  IF r.status = StatusNotFound THEN "notfound"
  ELSE IF makeRequestFails(r) \/ decodeFails(r)
       THEN IF r.json /\ Contains(ToLower(r.error), <<"no", "variable", "found">>)
            THEN "notfound"
            ELSE "error"
       ELSE "found"

\* Client.CreateVariable, Client.UpdateVariableValue, Client.ListVariables,
\* opclient.GetItems, opclient.GetItemDetails: "ok" or "error"
CallResult(r) == IF makeRequestFails(r) THEN "error" ELSE "ok"

\* resp.Status as it appears in the error text of makeRequest
StatusText(r) ==
  CASE r.status = 404 -> <<"404", "Not", "Found">>
    [] r.status = 400 -> <<"400", "Bad", "Request">>
    [] r.status = 500 -> <<"500", "Internal", "Server", "Error">>
    [] r.status = 502 -> <<"502", "Bad", "Gateway">>
    [] OTHER -> <<"connection", "refused">>

\* Client.DeleteVariable: "ok" or "error"
DeleteVariable(r) ==
  IF makeRequestFails(r)
  THEN IF r.json
       THEN IF \/ Contains(ToLower(r.error), <<"no", "variable", "found">>)
               \/ Contains(ToLower(r.error), <<"not", "found">>)
            THEN "ok" ELSE "error"
       ELSE IF \/ Contains(ToLower(StatusText(r)), <<"no", "variable", "found">>)
               \/ Contains(ToLower(StatusText(r)), <<"not", "found">>)
            THEN "ok" ELSE "error"
  ELSE "ok"


(***************************************************************************)
(* State.                                                                  *)
(***************************************************************************)
VARIABLES
  vault,                   \* the items of the 1Password vault, in GetItems order
  store,                   \* the Komodo variables: name -> Variable
  pc,                      \* where Synchronizer.Run stands
  items,                   \* Run: items
  idx,                     \* Run: position of the running for loop
  expectedKomodoNames,     \* Run: expectedKomodoNames
  secretsToSync,           \* Run: secretsToSync
  found,                   \* syncKomodoSecret: found
  createUpdateErrorCount,  \* Run: createUpdateErrorCount
  deleteErrorCount,        \* Run: deleteErrorCount
  komodoVars,              \* Run: komodoVars
  todo,                    \* Run: keys of komodoVars the range loop has not visited
  ret,                     \* the value Run returned, NoRet while it runs
  calls,                   \* history: the client calls of this run, in order
  store0,                  \* history: the store when this run started
  prev,                    \* history: the run before this one
  fails,                   \* history: failing replies handed out in this run
  budget,                  \* environment: failing replies a run can meet
  probe,                   \* the input and the result of a function under test
  proc,                    \* main: the process, its ticker and its signal channel
  logs                     \* the lines the logging package has printed

vars == <<vault, store, pc, items, idx, expectedKomodoNames, secretsToSync, found,
          createUpdateErrorCount, deleteErrorCount, komodoVars, todo, ret,
          calls, store0, prev, fails, budget, probe, proc, logs>>

locals == <<items, idx, expectedKomodoNames, secretsToSync, found,
            createUpdateErrorCount, deleteErrorCount, komodoVars, todo>>

NoRet == -1

\* no run yet, or a run in which a client call failed
NoPrev == [clean |-> FALSE, vault |-> <<>>]

Call(op, id, name, value, res) ==
  [op |-> op, id |-> id, name |-> name, value |-> value, res |-> res,
   description |-> <<>>, is_secret |-> FALSE]

\* no client call of the run returned an error
Clean(cs) == \A i \in 1..Len(cs) : cs[i].res # "error"

(***************************************************************************)
(* What the servers answer.                                                *)
(***************************************************************************)
MayFail == IF fails < budget THEN FailureReplies ELSE {}

Failed(r) == IF r \in FailureReplies THEN 1 ELSE 0

\* 1Password Connect answers a GET
OpReplies == {ReplyOk} \cup MayFail

\* Komodo answers GetVariable / UpdateVariableValue / DeleteVariable of name
ExistingReplies(name) ==
  (IF name \in DOMAIN store THEN {ReplyOk} ELSE AbsentReplies) \cup MayFail

\* lines 168-176 with a request that does not ask for a secret
CreateParams_NotSecret(name, value, description) ==
  [name |-> name, value |-> value, description |-> description, is_secret |-> FALSE]

\* Client.CreateVariable, lines 168-176: the params of the request
CreateParams(name, value, description) ==
  [name |-> name, value |-> value, description |-> description, is_secret |-> TRUE]

\* Komodo rejects the creation of a variable that exists
ConflictReply == Reply(500, TRUE, <<"variable", "already", "exists">>)

\* Komodo answers CreateVariable of name
CreateReplies(name) ==
  (IF name \in DOMAIN store THEN {ConflictReply} ELSE {ReplyOk}) \cup MayFail

\* Komodo answers ListVariables
ListReplies == {ReplyOk} \cup MayFail

(***************************************************************************)
(* Synchronizer.Run, one action per client call; an action runs the code   *)
(* from that call up to the next one.                                      *)
(***************************************************************************)
\* Item: what GetItems returns of an item
Summary(it) == [id |-> it.id, title |-> it.title]

\* ItemDetail: what GetItemDetails returns for an id
Detail(id) == CHOOSE it \in { vault[i] : i \in 1..Len(vault) } : it.id = id

\* lines 103-111 with the failure of GetItems taken for an empty vault
AfterGetItems_ErrorIgnored(res, n) ==
  IF n = 0 THEN [pc |-> "done", ret |-> 0]
  ELSE [pc |-> "GetItemDetails", ret |-> NoRet]

\* Run, lines 103-111: the way on after GetItems
AfterGetItems(res, n) ==
  IF res = "error" THEN [pc |-> "done", ret |-> 1]
  ELSE IF n = 0 THEN [pc |-> "done", ret |-> 0]
  ELSE [pc |-> "GetItemDetails", ret |-> NoRet]

\* line 137 with the test of the value left out
SkipField_LabelOnly(field) == field.label = <<>>

\* Run, line 137: a field without a label or without a value is skipped
SkipField(field) == field.label = <<>> \/ field.value = ""

\* Run, lines 136-147: the fields of one item that are synced
RECURSIVE FieldsToSync(_, _)
FieldsToSync(title, fields) ==
  IF fields = <<>> THEN <<>>
  ELSE LET field == Head(fields)
           rest  == FieldsToSync(title, Tail(fields))
       IN  IF SkipField(field)
           THEN rest
           ELSE <<[name |-> formatKomodoName(title, field.label),
                   value |-> field.value]>> \o rest

\* Run, lines 125-134: the secrets an item contributes
ItemSecrets(res, detail) ==
  IF res = "error" THEN <<>>
  ELSE IF Len(detail.fields) = 0 THEN <<>>
  ELSE FieldsToSync(detail.title, detail.fields)

Names(secrets) == { secrets[i].name : i \in 1..Len(secrets) }

\* line 144 with a set of expected names that each item starts anew
ExpectedNames_PerItem(expected, secrets) == Names(secrets)

\* Run, line 144: the name of every entry is expected, before any write
ExpectedNames(expected, secrets) == expected \cup Names(secrets)

\* line 145 with the entries of an item put in front of the list
AppendSecrets_Prepend(all, secrets) == secrets \o all

\* line 145 with the earlier entries of a name dropped
AppendSecrets_Dedup(all, secrets) ==
  SelectSeq(all, LAMBDA e : e.name \notin Names(secrets)) \o secrets

\* Run, line 145: append(secretsToSync, ...) for the fields of one item
AppendSecrets(all, secrets) == all \o secrets

\* line 155 with a loop that stops one entry early
SyncLoopPc_OffByOne(i, n) == IF i < n THEN "GetVariable" ELSE "ListVariables"

\* Run, line 155: the loop over secretsToSync goes on or ends
SyncLoopPc(i, n) == IF i <= n THEN "GetVariable" ELSE "ListVariables"

\* lines 157-164 with a run that starts over after a failed entry
AfterSync_Restart(res, i, n) ==
  IF res = "error" THEN "GetItems" ELSE SyncLoopPc(i, n)

\* lines 157-164 with a loop that a failed entry ends
AfterSync_Abort(res, i, n) ==
  IF res = "error" THEN "ListVariables" ELSE SyncLoopPc(i, n)

\* Run, lines 157-164: the loop goes on with entry i of n after an entry
\* whose syncKomodoSecret returned res
AfterSync(res, i, n) == SyncLoopPc(i, n)

\* lines 158-161 with the error of the write swallowed
SyncErrorCount_Swallowed(res) == 0

\* Run, lines 158-161: an entry whose syncKomodoSecret returned an error
\* counts once
SyncErrorCount(res) == IF res = "error" THEN 1 ELSE 0

\* lines 88-95 with the two branches swapped
WriteOp_CreateOnly(res) == "CreateVariable"

WriteOp_Swapped(res) == IF res = "found" THEN "CreateVariable" ELSE "UpdateVariableValue"

\* syncKomodoSecret, lines 88-95: the write that follows the existence check
WriteOp(res) == IF res = "found" THEN "UpdateVariableValue" ELSE "CreateVariable"

\* line 178 without the test of the description
IsOrphan_NameOnly(details, name, expected) == name \notin expected

\* line 178 without the test of the expected names
IsOrphan_MarkerOnly(details, name, expected) ==
  Contains(details.description, <<managedByMarker>>)

\* line 178 with the test of the expected names negated
IsOrphan_Inverted(details, name, expected) ==
  Contains(details.description, <<managedByMarker>>) /\ name \in expected

\* Run, line 178: the variable is an orphan of this tool
IsOrphan(details, name, expected) ==
  Contains(details.description, <<managedByMarker>>) /\ name \notin expected

\* line 172 without the error of the listing
ListFailureReturn_NoExtra(cu) == cu

\* Run, line 172
ListFailureReturn(cu) == cu + 1

\* line 195 without the errors of the deletions
TotalErrors_NoDeletes(cu, de) == cu

\* Run, line 195
TotalErrors(cu, de) == cu + de


(***************************************************************************)
(* Initial state: no run yet.                                              *)
(***************************************************************************)
LocalsInit ==
  /\ items = <<>>
  /\ idx = 0
  /\ expectedKomodoNames = {}
  /\ secretsToSync = <<>>
  /\ found = ""
  /\ createUpdateErrorCount = 0
  /\ deleteErrorCount = 0
  /\ komodoVars = EmptyMap
  /\ todo = {}

HistoryInit ==
  /\ ret = NoRet
  /\ calls = <<>>
  /\ store0 = EmptyMap
  /\ fails = 0

\* no function is under test
NoProbe == [kind |-> "none"]

\* main is left out: Run is called again and again, and nothing is logged
NoProc == [at |-> "none"]

NoMain ==
  /\ proc = NoProc
  /\ logs = <<>>

\* servers and network may fail
Init ==
  /\ vault \in Vaults
  /\ store \in InitStores
  /\ pc = "idle"
  /\ LocalsInit
  /\ HistoryInit
  /\ prev = NoPrev
  /\ budget = MaxFailures
  /\ probe = NoProbe
  /\ NoMain

\* servers and network never fail
InitRuns ==
  /\ vault \in Vaults
  /\ store \in InitStores
  /\ pc = "idle"
  /\ LocalsInit
  /\ HistoryInit
  /\ prev = NoPrev
  /\ budget = 0
  /\ probe = NoProbe
  /\ NoMain

\* main: sync.Run() is called
StartRun ==
  /\ pc = "idle"
  /\ pc' = "GetItems"
  /\ store0' = store
  /\ calls' = <<>>
  /\ fails' = 0
  /\ ret' = NoRet
  /\ UNCHANGED <<vault, store, locals, prev, budget, probe, proc, logs>>

\* Run, lines 101-120
GetItems ==
  /\ pc = "GetItems"
  /\ \E r \in OpReplies :
       LET res == CallResult(r)
           its == IF res = "ok" THEN [i \in 1..Len(vault) |-> Summary(vault[i])] ELSE <<>>
           nxt == AfterGetItems(res, Len(its))
       IN  /\ calls' = Append(calls, Call("GetItems", 0, <<>>, "", res))
           /\ fails' = fails + Failed(r)
           /\ items' = its
           /\ pc' = nxt.pc
           /\ ret' = nxt.ret
           /\ idx' = IF nxt.pc = "GetItemDetails" THEN 1 ELSE idx
  /\ UNCHANGED <<vault, store, expectedKomodoNames, secretsToSync, found,
                 createUpdateErrorCount, deleteErrorCount, komodoVars, todo,
                 store0, prev, budget, probe, proc, logs>>

\* Run, lines 122-153: one turn of the loop over items
GetItemDetails ==
  /\ pc = "GetItemDetails"
  /\ \E r \in OpReplies :
       LET item    == items[idx]
           res     == CallResult(r)
           secrets == ItemSecrets(res, Detail(item.id))
           all     == AppendSecrets(secretsToSync, secrets)
       IN  /\ calls' = Append(calls, Call("GetItemDetails", item.id, <<>>, "", res))
           /\ fails' = fails + Failed(r)
           /\ secretsToSync' = all
           /\ expectedKomodoNames' = ExpectedNames(expectedKomodoNames, secrets)
           /\ IF idx < Len(items)
              THEN /\ idx' = idx + 1
                   /\ pc' = pc
              ELSE /\ idx' = 1
                   /\ pc' = SyncLoopPc(1, Len(all))
  /\ UNCHANGED <<vault, store, items, found, createUpdateErrorCount,
                 deleteErrorCount, komodoVars, todo, ret, store0, prev, budget, probe, proc, logs>>

\* Run, lines 155-157 and syncKomodoSecret, lines 81-86: the existence check
GetVariableStep ==
  /\ pc = "GetVariable"
  /\ \E r \in ExistingReplies(secretsToSync[idx].name) :
       LET secret == secretsToSync[idx]
           res    == GetVariable(r)
       IN  /\ calls' = Append(calls, Call("GetVariable", 0, secret.name, "", res))
           /\ fails' = fails + Failed(r)
           /\ IF res = "error"
              THEN /\ createUpdateErrorCount' = createUpdateErrorCount + 1
                   /\ idx' = idx + 1
                   /\ pc' = AfterSync(res, idx + 1, Len(secretsToSync))
                   /\ found' = ""
              ELSE /\ found' = res
                   /\ pc' = "Write"
                   /\ UNCHANGED <<createUpdateErrorCount, idx>>
  /\ UNCHANGED <<vault, store, items, expectedKomodoNames, secretsToSync,
                 deleteErrorCount, komodoVars, todo, ret, store0, prev, budget, probe, proc, logs>>

\* syncKomodoSecret, lines 88-95 and Run, lines 158-164: update or create
WriteStep ==
  /\ pc = "Write"
  /\ LET secret == secretsToSync[idx]
         op     == WriteOp(found)
         params == CreateParams(secret.name, secret.value, ManagedDescription)
     IN  \E r \in (IF op = "CreateVariable" THEN CreateReplies(secret.name)
                                            ELSE ExistingReplies(secret.name)) :
           LET res == CallResult(r)
           IN  /\ calls' = Append(calls,
                    IF op = "CreateVariable"
                    THEN [Call(op, 0, params.name, params.value, res)
                            EXCEPT !.description = params.description,
                                   !.is_secret = params.is_secret]
                    ELSE Call(op, 0, secret.name, secret.value, res))
               /\ fails' = fails + Failed(r)
               /\ store' = IF res = "error" THEN store
                           ELSE IF op = "CreateVariable"
                                THEN MapPut(store, params.name,
                                            Variable(params.value, params.description,
                                                     params.is_secret))
                                ELSE MapPut(store, secret.name,
                                            [store[secret.name] EXCEPT !.value = secret.value])
               /\ createUpdateErrorCount' =
                    createUpdateErrorCount + SyncErrorCount(res)
               /\ pc' = AfterSync(res, idx + 1, Len(secretsToSync))
  /\ idx' = idx + 1
  /\ found' = ""
  /\ UNCHANGED <<vault, items, expectedKomodoNames, secretsToSync,
                 deleteErrorCount, komodoVars, todo, ret, store0, prev, budget, probe, proc, logs>>

\* Run, lines 167-176, and lines 189-198 when there is nothing to range over
ListVariables ==
  /\ pc = "ListVariables"
  /\ \E r \in ListReplies :
       LET res == CallResult(r)
       IN  /\ calls' = Append(calls, Call("ListVariables", 0, <<>>, "", res))
           /\ fails' = fails + Failed(r)
           /\ IF res = "error"
              THEN /\ ret' = ListFailureReturn(createUpdateErrorCount)
                   /\ pc' = "done"
                   /\ UNCHANGED <<komodoVars, todo>>
              ELSE /\ komodoVars' = store
                   /\ todo' = DOMAIN store
                   /\ IF DOMAIN store = {}
                      THEN /\ ret' = TotalErrors(createUpdateErrorCount, deleteErrorCount)
                           /\ pc' = "done"
                      ELSE /\ ret' = ret
                           /\ pc' = "Range"
  /\ UNCHANGED <<vault, store, items, idx, expectedKomodoNames, secretsToSync, found,
                 createUpdateErrorCount, deleteErrorCount, store0, prev, budget, probe, proc, logs>>

\* Run, lines 177-198: one turn of the range over komodoVars, whose order
\* Go leaves open
Range ==
  /\ pc = "Range"
  /\ \E name \in todo :
       /\ todo' = todo \ {name}
       /\ IF IsOrphan(komodoVars[name], name, expectedKomodoNames)
          THEN \E r \in ExistingReplies(name) :
                 LET res == DeleteVariable(r)
                     de  == deleteErrorCount + (IF res = "error" THEN 1 ELSE 0)
                 IN  /\ calls' = Append(calls, Call("DeleteVariable", 0, name, "", res))
                     /\ fails' = fails + Failed(r)
                     /\ store' = IF makeRequestFails(r) THEN store ELSE MapDel(store, name)
                     /\ deleteErrorCount' = de
                     /\ IF todo = {name}
                        THEN /\ ret' = TotalErrors(createUpdateErrorCount, de)
                             /\ pc' = "done"
                        ELSE UNCHANGED <<ret, pc>>
          ELSE /\ UNCHANGED <<calls, fails, store, deleteErrorCount>>
               /\ IF todo = {name}
                  THEN /\ ret' = TotalErrors(createUpdateErrorCount, deleteErrorCount)
                       /\ pc' = "done"
                  ELSE UNCHANGED <<ret, pc>>
  /\ UNCHANGED <<vault, items, idx, expectedKomodoNames, secretsToSync, found,
                 createUpdateErrorCount, komodoVars, store0, prev, budget, probe, proc, logs>>

\* the locals of Run are gone
LocalsReset ==
  /\ items' = <<>>
  /\ idx' = 0
  /\ expectedKomodoNames' = {}
  /\ secretsToSync' = <<>>
  /\ found' = ""
  /\ createUpdateErrorCount' = 0
  /\ deleteErrorCount' = 0
  /\ komodoVars' = EmptyMap
  /\ todo' = {}

HistoryReset ==
  /\ ret' = NoRet
  /\ calls' = <<>>
  /\ store0' = EmptyMap
  /\ fails' = 0

\* main: Run has returned
Return ==
  /\ pc = "done"
  /\ pc' = "idle"
  /\ prev' = IF Clean(calls) THEN [clean |-> TRUE, vault |-> vault] ELSE NoPrev
  /\ LocalsReset
  /\ HistoryReset
  /\ UNCHANGED <<vault, store, budget, probe, proc, logs>>

\* between two runs somebody edits the vault
EditVault ==
  /\ pc = "idle"
  /\ vault' \in Vaults \ {vault}
  /\ UNCHANGED <<store, pc, locals, ret, calls, store0, prev, fails, budget, probe, proc, logs>>

Next ==
  \/ StartRun
  \/ GetItems
  \/ GetItemDetails
  \/ GetVariableStep
  \/ WriteStep
  \/ ListVariables
  \/ Range
  \/ Return

Spec == Init /\ [][Next]_vars

\* runs with edits of the vault between them
NextRuns ==
  \/ Next
  \/ EditVault

SpecRuns == InitRuns /\ [][NextRuns]_vars

(***************************************************************************)
(* Runs during which somebody else writes to the store.                    *)
(***************************************************************************)
\* between the existence check that found nothing and the create, another
\* actor creates a variable of the same name
OtherActorCreates ==
  /\ pc = "Write"
  /\ found = "notfound"
  /\ secretsToSync[idx].name \notin DOMAIN store
  /\ store' = MapPut(store, secretsToSync[idx].name,
                     Variable("o", ManualDescription, FALSE))
  /\ UNCHANGED <<vault, pc, locals, ret, calls, store0, prev, fails, budget,
                 probe, proc, logs>>

NextRace ==
  \/ Next
  \/ OtherActorCreates

SpecRace == InitRuns /\ [][NextRace]_vars

(***************************************************************************)
(* Runs that a crash of the process interrupts between two client calls.   *)
(***************************************************************************)
\* the most runs in a row that a crash interrupts
MaxCrashes == 2

\* the crashes in a row before this run, and the store before the first
Crashes == IF "crashes" \in DOMAIN prev THEN prev.crashes ELSE 0

Original == IF Crashes > 0 THEN prev.store ELSE store0

\* the process dies inside Run; its locals are gone, the store keeps what
\* the calls made so far have written
Crash ==
  /\ pc \in {"GetItems", "GetItemDetails", "GetVariable", "Write", "ListVariables", "Range"}
  /\ Crashes < MaxCrashes
  /\ prev' = [clean |-> FALSE, vault |-> vault, crashes |-> Crashes + 1,
              store |-> Original]
  /\ pc' = "idle"
  /\ LocalsReset
  /\ HistoryReset
  /\ UNCHANGED <<vault, store, budget, probe, proc, logs>>

NextCrash ==
  \/ Next
  \/ Crash

SpecCrash == InitRuns /\ [][NextCrash]_vars

(***************************************************************************)
(* The komodoclient's reading of a reply, on every reply of a wider set.   *)
(***************************************************************************)
\* the error fields of the JSON bodies
ProbeErrors == { <<>>,
                 <<"No", "variable", "found">>,
                 <<"no", "variable", "found", "with", "given", "name">>,
                 <<"Variable", "not", "found">>,
                 <<"Not", "Found">>,
                 <<"internal", "Error">> }

\* the replies handed to GetVariable and DeleteVariable: no answer at all,
\* a body that is no JSON object, or a JSON object with an error field
ProbeReplies ==
  { Reply(0, FALSE, <<>>) }
    \cup { Reply(s, FALSE, <<>>) : s \in {200, 201, 400, 404, 500, 502} }
    \cup { Reply(s, TRUE, e) : s \in {200, 201, 400, 404, 500, 502}, e \in ProbeErrors }

\* the state of the run while a function is under test
NoRun ==
  /\ vault = <<>>
  /\ store = EmptyMap
  /\ pc = "idle"
  /\ LocalsInit
  /\ HistoryInit
  /\ prev = NoPrev
  /\ budget = 0

InitReplies ==
  /\ NoRun
  /\ NoMain
  /\ probe \in { [kind |-> "reply", reply |-> r, result |-> ""] : r \in ProbeReplies }

\* Client.GetVariable reads the reply
ProbeGetVariable ==
  /\ probe.kind = "reply"
  /\ probe' = [kind |-> "GetVariable", reply |-> probe.reply,
               result |-> GetVariable(probe.reply)]
  /\ UNCHANGED <<vault, store, pc, locals, ret, calls, store0, prev, fails, budget, proc, logs>>

\* Client.DeleteVariable reads the reply
ProbeDeleteVariable ==
  /\ probe.kind = "reply"
  /\ probe' = [kind |-> "DeleteVariable", reply |-> probe.reply,
               result |-> DeleteVariable(probe.reply)]
  /\ UNCHANGED <<vault, store, pc, locals, ret, calls, store0, prev, fails, budget, proc, logs>>

NextReplies ==
  \/ ProbeGetVariable
  \/ ProbeDeleteVariable

SpecReplies == InitReplies /\ [][NextReplies]_vars

(***************************************************************************)
(* formatKomodoName on every title and label of a bounded length.          *)
(***************************************************************************)
\* longest title and label, the documented example apart
MaxLen == 2

\* the characters of the titles and labels under test
ProbeChars == {"a", "B", " ", "\t", "-", "_", "."}

RECURSIVE StringsOfLen(_)
StringsOfLen(n) ==
  IF n = 0 THEN { <<>> }
  ELSE { Append(s, c) : s \in StringsOfLen(n - 1), c \in ProbeChars }

Strings == UNION { StringsOfLen(n) : n \in 0..MaxLen }

\* the item title and the field label of the README's example
ExampleTitle == <<"M", "y", " ", "S", "e", "r", "v", "i", "c", "e", " ", "A", "P", "I">>

ExampleLabel == <<"A", "P", "I", " ", "K", "e", "y">>

\* strings.Split(name, "__"): cur is the part read so far
RECURSIVE Split(_, _)
Split(s, cur) ==
  IF s = <<>> THEN <<cur>>
  ELSE IF Len(s) >= 2 /\ s[1] = "_" /\ s[2] = "_"
       THEN <<cur>> \o Split(SubSeq(s, 3, Len(s)), <<>>)
       ELSE Split(Tail(s), Append(cur, Head(s)))

\* strings.Join(parts, "__")
RECURSIVE Join(_)
Join(parts) ==
  IF Len(parts) = 1 THEN parts[1]
  ELSE parts[1] \o <<"_", "_">> \o Join(Tail(parts))

\* the mask of sanitizeNameForLog
Mask == <<"*", "*", "*">>

\* sanitizeNameForLog, lines 67-74: what becomes of one part
MaskPart(part) == IF Len(part) > 2 THEN SubSeq(part, 1, 2) \o Mask ELSE Mask

\* sanitizeNameForLog; the loop of line 66 starts at the third part
sanitizeNameForLog(name) ==
  LET parts == Split(name, <<>>)
  IN  IF Len(parts) < 2 THEN name
      ELSE Join([i \in 1..Len(parts) |-> IF i >= 3 THEN MaskPart(parts[i]) ELSE parts[i]])

InitFormat ==
  /\ NoRun
  /\ NoMain
  /\ probe \in { [kind |-> "names", itemName |-> t, fieldLabel |-> l, result |-> <<>>] :
                 t \in Strings \cup {ExampleTitle}, l \in Strings \cup {ExampleLabel} }

\* formatKomodoName is called
ProbeFormat ==
  /\ probe.kind = "names"
  /\ probe' = [probe EXCEPT !.kind = "formatKomodoName",
                            !.result = formatKomodoName(probe.itemName, probe.fieldLabel)]
  /\ UNCHANGED <<vault, store, pc, locals, ret, calls, store0, prev, fails, budget, proc, logs>>

\* Run, lines 156-182: the name is handed to sanitizeNameForLog
ProbeSanitize ==
  /\ probe.kind = "formatKomodoName"
  /\ probe' = [kind |-> "sanitizeNameForLog", name |-> probe.result,
               result |-> sanitizeNameForLog(probe.result)]
  /\ UNCHANGED <<vault, store, pc, locals, ret, calls, store0, prev, fails, budget, proc, logs>>

NextFormat ==
  \/ ProbeFormat
  \/ ProbeSanitize

SpecFormat == InitFormat /\ [][NextFormat]_vars

(***************************************************************************)
(* config.LoadConfig on the two host variables.  A host is a sequence of   *)
(* pieces of text; "http" is one piece and no other piece begins with it.  *)
(***************************************************************************)
\* the most slashes a host ends with
MaxSlashes == 2

HttpScheme == <<"http", ":", "/", "/">>

HttpsScheme == <<"http", "s", ":", "/", "/">>

RECURSIVE Slashes(_)
Slashes(n) == IF n = 0 THEN <<>> ELSE <<"/">> \o Slashes(n - 1)

\* the values of OP_CONNECT_HOST and KOMODO_HOST: unset, with a scheme or
\* without, a name that begins with "http" or not, and trailing slashes
HostInputs ==
  { start \o name \o Slashes(n) :
      start \in { <<>>, HttpScheme, HttpsScheme, <<"http">> },
      name \in { <<>>, <<"x">> },
      n \in 0..MaxSlashes }

\* strings.HasPrefix(s, "http")
HasPrefixHttp(s) == s # <<>> /\ s[1] = "http"

\* strings.TrimSuffix(s, "/")
TrimSuffixSlash(s) ==
  IF s # <<>> /\ s[Len(s)] = "/" THEN SubSeq(s, 1, Len(s) - 1) ELSE s

\* LoadConfig, lines 70-80, for one host
NormalizeHost(host) ==
  TrimSuffixSlash(IF HasPrefixHttp(host) THEN host ELSE HttpScheme \o host)

\* LoadConfig with the four other required variables set
LoadConfig(opHost, komodoHost) ==
  IF opHost = <<>> \/ komodoHost = <<>>
  THEN [err |-> TRUE, OpConnectHost |-> <<>>, KomodoHost |-> <<>>]
  ELSE [err |-> FALSE, OpConnectHost |-> NormalizeHost(opHost),
        KomodoHost |-> NormalizeHost(komodoHost)]

InitConfig ==
  /\ NoRun
  /\ NoMain
  /\ probe \in { [kind |-> "env", OP_CONNECT_HOST |-> a, KOMODO_HOST |-> b,
                  result |-> <<>>] : a \in HostInputs, b \in HostInputs }

\* main, line 228: config.LoadConfig()
ProbeLoadConfig ==
  /\ probe.kind = "env"
  /\ probe' = [probe EXCEPT !.kind = "LoadConfig",
                 !.result = LoadConfig(probe.OP_CONNECT_HOST, probe.KOMODO_HOST)]
  /\ UNCHANGED <<vault, store, pc, locals, ret, calls, store0, prev, fails, budget,
                 proc, logs>>

NextConfig == ProbeLoadConfig

SpecConfig == InitConfig /\ [][NextConfig]_vars

(***************************************************************************)
(* What is logged.  A line is a sequence of words; the configuration       *)
(* values are single words, and neither the vault nor a server hands the   *)
(* program a word that is a credential.                                    *)
(***************************************************************************)
\* the client requests of one behaviour
MaxRequests == 2

LogLevelError == 0

LogLevelInfo == 1

LogLevelDebug == 2

\* the Config that LoadConfig returned
Cfg ==
  [OpConnectHost |-> "http://op", OpVaultUUID |-> OpVaultUUID,
   OpServiceAccountToken |-> "op-token", KomodoHost |-> "http://komodo",
   KomodoAPIKey |-> "komodo-key", KomodoAPISecret |-> "komodo-secret",
   SyncInterval |-> "1h"]

\* logging.Debug, logging.Info, logging.Error: the log after a call at level
\* lvl with the words line, currentLogLevel being cur
Logged(out, cur, lvl, tag, line) ==
  IF cur >= lvl THEN Append(out, <<tag>> \o line) ELSE out

Debug(out, cur, line) == Logged(out, cur, LogLevelDebug, "[DEBUG]", line)

Info(out, cur, line) == Logged(out, cur, LogLevelInfo, "[INFO]", line)

Error(out, cur, line) == Logged(out, cur, LogLevelError, "[ERROR]", line)

\* the paths of GetItems and GetItemDetails
OpPaths == { "/v1/vaults/" \o OpVaultUUID \o "/items",
             "/v1/vaults/" \o OpVaultUUID \o "/items/1" }

\* the requests of the komodoclient: type, path and params
KomodoPayloads ==
  { [type |-> "GetVariable", path |-> "/read", params |-> <<"name", "A__K">>],
    [type |-> "CreateVariable", path |-> "/write",
     params |-> <<"name", "A__K", "value", "x", "description">> \o ManagedDescription
                  \o <<"is_secret", "true">>],
    [type |-> "UpdateVariableValue", path |-> "/write",
     params |-> <<"name", "A__K", "value", "x">>],
    [type |-> "DeleteVariable", path |-> "/write", params |-> <<"name", "A__K">>],
    [type |-> "ListVariables", path |-> "/read", params |-> <<>>] }

\* what a server answers: nothing, a failure with a body, or a result
LogReplies ==
  { Reply(0, FALSE, <<>>),
    Reply(500, TRUE, <<"internal", "Error">>),
    Reply(200, TRUE, <<>>) }

\* the body of a reply as the clients print it
BodyText(r) == IF r.json THEN <<"{">> \o r.error \o <<"}">> ELSE <<>>

\* line 138 with the Authorization header in the line
OpRequestLine_WithHeader(method, url, authHeader) ==
  <<"Making", "1Password", "request:", method, url>> \o authHeader

\* makeRequestGeneric, line 138: the line that announces the request
OpRequestLine(method, url, authHeader) ==
  <<"Making", "1Password", "request:", method, url>>

\* the log is at level cur; main has printed the configuration or not
InitLog ==
  /\ NoRun
  /\ probe = NoProbe
  /\ logs = <<>>
  /\ proc \in { [at |-> "loaded", level |-> cur] :
                  cur \in {LogLevelError, LogLevelInfo, LogLevelDebug} }

\* main, lines 240-244
LogConfig ==
  /\ proc.at = "loaded"
  /\ proc' = [proc EXCEPT !.at = "Run"]
  /\ logs' = Info(Info(Info(Info(Info(logs, proc.level,
               <<"Configuration", "loaded:">>), proc.level,
               <<"OP_CONNECT_HOST:", Cfg.OpConnectHost>>), proc.level,
               <<"OP_VAULT", "(UUID):", Cfg.OpVaultUUID>>), proc.level,
               <<"KOMODO_HOST:", Cfg.KomodoHost>>), proc.level,
               <<"SYNC_INTERVAL:", Cfg.SyncInterval, "(effective)">>)
  /\ UNCHANGED <<vault, store, pc, locals, ret, calls, store0, prev, fails, budget, probe>>

\* opclient.makeRequestGeneric, lines 136-172, and the line of Run that
\* prints the error it returns (lines 104 and 126)
OpRequest ==
  /\ proc.at = "Run"
  /\ Len(calls) < MaxRequests
  /\ \E path \in OpPaths, r \in LogReplies :
       LET url        == Cfg.OpConnectHost \o path
           authHeader == <<"Bearer", Cfg.OpServiceAccountToken>>
           out1       == Debug(logs, proc.level, OpRequestLine("GET", url, authHeader))
           err        == IF r.status = 0
                         THEN <<"failed", "to", "execute", "1Password", "request",
                                "to", url, "connection", "refused">>
                         ELSE <<"1Password", "API", "request", "to", url, "failed",
                                "with", "status">> \o StatusText(r) \o BodyText(r)
       IN  /\ calls' = Append(calls, [op |-> "GET", url |-> url,
                                      headers |-> authHeader \o <<"application/json">>])
           /\ logs' = IF r.status = 0
                      THEN Error(out1, proc.level, <<"Failed", "to", "get">> \o err)
                      ELSE IF makeRequestFails(r)
                      THEN Error(Debug(out1, proc.level,
                                   <<"1Password", "Error", "Response", "Body:">>
                                     \o BodyText(r)),
                                 proc.level, <<"Failed", "to", "get">> \o err)
                      ELSE out1
  /\ UNCHANGED <<vault, store, pc, locals, ret, store0, prev, fails, budget, probe, proc>>

\* komodoclient.makeRequest, lines 82-133, and the line of the caller that
\* prints the error it returns (part_001 line 158, Run lines 159, 170, 182)
KomodoRequest ==
  /\ proc.at = "Run"
  /\ Len(calls) < MaxRequests
  /\ \E payload \in KomodoPayloads, r \in LogReplies :
       LET url  == Cfg.KomodoHost \o payload.path
           out1 == Debug(Debug(logs, proc.level,
                     <<"Komodo", "Request", "URL:", "POST", url>>), proc.level,
                     <<"Komodo", "Request", "Body:", payload.type>> \o payload.params)
           out2 == Debug(Debug(out1, proc.level,
                     <<"Komodo", "Response", "Status:">> \o StatusText(r)), proc.level,
                     <<"Komodo", "Response", "Body:">> \o BodyText(r))
           err  == IF r.status = 0
                   THEN <<"failed", "to", "execute", "Komodo", "request", "to", url,
                          "connection", "refused">>
                   ELSE <<"Komodo", "API", "request", "to", url, "failed", "with",
                          "status">> \o StatusText(r) \o r.error
       IN  /\ calls' = Append(calls, [op |-> "POST", url |-> url,
                                      headers |-> <<"application/json",
                                                    Cfg.KomodoAPIKey,
                                                    Cfg.KomodoAPISecret>>])
           /\ logs' = IF r.status = 0
                      THEN Error(out1, proc.level, <<"Failed">> \o err)
                      ELSE IF makeRequestFails(r)
                      THEN Error(out2, proc.level, <<"Failed">> \o err)
                      ELSE Info(out2, proc.level,
                                <<"Successfully", payload.type>>)
  /\ UNCHANGED <<vault, store, pc, locals, ret, store0, prev, fails, budget, probe, proc>>

NextLog ==
  \/ LogConfig
  \/ OpRequest
  \/ KomodoRequest

SpecLog == InitLog /\ [][NextLog]_vars

(***************************************************************************)
(* main: the one-off mode and the daemon mode.  Run is one call that       *)
(* returns an error count; the ticker and the signal channel hold at most  *)
(* one element each.                                                       *)
(***************************************************************************)
\* the largest error count a run returns
MaxErrors == 2

\* the counters of runs and of consumed ticks stop counting here
MaxRuns == 3

Min(a, b) == IF a < b THEN a ELSE b

\* lines 306-311 with an exit status that ignores the count
ExitStatus_AlwaysZero(totalErrors) == 0

\* main, lines 304-311: the exit status of the one-off mode
ExitStatus(totalErrors) == IF totalErrors > 0 THEN 1 ELSE 0

\* lines 277-282 and 290-294 with a daemon that gives up after errors
AfterDaemonRun_ExitOnError(errors) == IF errors > 0 THEN "exited" ELSE "select"

\* main, lines 277-282 and 290-294: the daemon logs the count and goes on
AfterDaemonRun(errors) == "select"

\* line 285 with a tick that is served while a run is in flight
CanSelect_WhileRunning(p) == p.at \in {"select", "Run"}

\* main, lines 285-286: the goroutine of main is at the select statement
CanSelect(p) == p.at = "select"

\* the process after flag.Parse: -daemon or not, the environment complete
\* or not, the interval well-formed or not
MainProc(mode, config, interval) ==
  [mode |-> mode, config |-> config, interval |-> interval, at |-> "start",
   tick |-> 0, stop |-> 0, signalled |-> FALSE, inflight |-> 0, runs |-> 0,
   ticks |-> 0, result |-> NoRet, status |-> NoRet, why |-> ""]

Exited(p, status, why) == [p EXCEPT !.at = "exited", !.status = status, !.why = why]

InitMain ==
  /\ NoRun
  /\ probe = NoProbe
  /\ logs = <<>>
  /\ proc \in { MainProc(mode, config, interval) :
                  mode \in {"oneoff", "daemon"}, config \in {"ok", "error"},
                  interval \in {"valid", "invalid"} }

\* main, lines 228-276 and 301-304: up to the first call of sync.Run
MainStart ==
  /\ proc.at = "start"
  /\ proc' = IF proc.config = "error" THEN Exited(proc, 1, "config")
             ELSE IF proc.mode = "daemon" /\ proc.interval = "invalid"
                  THEN Exited(proc, 1, "interval")
                  ELSE [proc EXCEPT !.at = "Run", !.inflight = @ + 1]
  /\ UNCHANGED <<vault, store, pc, locals, ret, calls, store0, prev, fails, budget,
                 probe, logs>>

\* main, lines 276-282, 289-294 and 304-311: sync.Run returns
RunReturns ==
  /\ proc.at = "Run"
  /\ \E errors \in 0..MaxErrors :
       LET p == [proc EXCEPT !.inflight = @ - 1, !.result = errors,
                             !.runs = Min(@ + 1, MaxRuns)]
       IN  proc' = IF proc.mode = "oneoff"
                   THEN Exited(p, ExitStatus(errors), "oneoff")
                   ELSE IF AfterDaemonRun(errors) = "exited"
                        THEN Exited(p, 1, "errors")
                        ELSE [p EXCEPT !.at = AfterDaemonRun(errors)]
  /\ UNCHANGED <<vault, store, pc, locals, ret, calls, store0, prev, fails, budget,
                 probe, logs>>

\* time.Ticker: the interval has passed; a tick that finds the channel full
\* is dropped
Tick ==
  /\ proc.mode = "daemon"
  /\ proc.at \in {"Run", "select"}
  /\ proc.tick = 0
  /\ proc' = [proc EXCEPT !.tick = 1]
  /\ UNCHANGED <<vault, store, pc, locals, ret, calls, store0, prev, fails, budget,
                 probe, logs>>

\* signal.Notify, line 272: SIGINT or SIGTERM is delivered to stopChan
Signal ==
  /\ proc.mode = "daemon"
  /\ proc.at \in {"Run", "select"}
  /\ proc.stop = 0
  /\ proc' = [proc EXCEPT !.stop = 1, !.signalled = TRUE]
  /\ UNCHANGED <<vault, store, pc, locals, ret, calls, store0, prev, fails, budget,
                 probe, logs>>

\* main, lines 286-289: the select takes the tick and calls sync.Run
SelectTick ==
  /\ CanSelect(proc)
  /\ proc.tick = 1
  /\ proc' = [proc EXCEPT !.tick = 0, !.ticks = Min(@ + 1, MaxRuns),
                          !.inflight = @ + 1, !.at = "Run"]
  /\ UNCHANGED <<vault, store, pc, locals, ret, calls, store0, prev, fails, budget,
                 probe, logs>>

\* main, lines 295-297: the select takes the signal and main returns
SelectStop ==
  /\ proc.at = "select"
  /\ proc.stop = 1
  /\ proc' = Exited([proc EXCEPT !.stop = 0], 0, "signal")
  /\ UNCHANGED <<vault, store, pc, locals, ret, calls, store0, prev, fails, budget,
                 probe, logs>>

NextMain ==
  \/ MainStart
  \/ RunReturns
  \/ Tick
  \/ Signal
  \/ SelectTick
  \/ SelectStop

SpecMain == InitMain /\ [][NextMain]_vars

\* the ticker goes on firing, a run returns, and a select whose channel is
\* ready is served
SpecMainFair ==
  /\ SpecMain
  /\ WF_vars(Tick)
  /\ WF_vars(RunReturns)
  /\ WF_vars(SelectTick)


(***************************************************************************)
(* Vocabulary of the properties.                                           *)
(***************************************************************************)
CallsOf(op) == SelectSeq(calls, LAMBDA c : c.op = op)

CallNames(cs) == { cs[i].name : i \in 1..Len(cs) }

HasMarker(v) == Contains(v.description, <<managedByMarker>>)

\* names of the variables of m that do not carry the marker
Unmarked(m) == { n \in DOMAIN m : ~HasMarker(m[n]) }

\* names of the variables of m that carry the marker
Marked(m) == { n \in DOMAIN m : HasMarker(m[n]) }

Succeeded(op) == \E i \in 1..Len(calls) : calls[i].op = op /\ calls[i].res = "ok"

FailedCall(op) == \E i \in 1..Len(calls) : calls[i].op = op /\ calls[i].res = "error"

Returned == pc = "done"

(***************************************************************************)
(* C1  Orphan safety: in no run is DeleteVariable called on a variable of  *)
(* the store whose description lacks the marker "1Password-Sync:", and no  *)
(* such variable leaves the store, whether its name is expected or not.    *)
(***************************************************************************)
C1_OrphanSafety ==
  /\ CallNames(CallsOf("DeleteVariable")) \cap Unmarked(store0) = {}
  /\ \A i \in 1..Len(calls) :
       calls[i].op = "DeleteVariable" => HasMarker(komodoVars[calls[i].name])
  /\ pc # "idle" => Unmarked(store0) \subseteq DOMAIN store

\* a run deleted a managed orphan and left alone two unmarked variables, one
\* with an expected name and one without
C1_Witness ==
  /\ Returned
  /\ Succeeded("DeleteVariable")
  /\ Unmarked(store0) \cap expectedKomodoNames # {}
  /\ Unmarked(store0) \ expectedKomodoNames # {}

(***************************************************************************)
(* C3  When GetItems and ListVariables succeeded, the run has called       *)
(* DeleteVariable on exactly the names of the ListVariables snapshot that  *)
(* carry the marker and are not expected, once each.                       *)
(***************************************************************************)
C3_DeletesExactlyOrphans ==
  (Returned /\ Succeeded("GetItems") /\ Succeeded("ListVariables")) =>
    /\ CallNames(CallsOf("DeleteVariable")) = Marked(komodoVars) \ expectedKomodoNames
    /\ Len(CallsOf("DeleteVariable")) = Cardinality(Marked(komodoVars) \ expectedKomodoNames)

\* a run deleted two orphans and kept a managed variable that is expected
C3_Witness ==
  /\ Returned
  /\ Succeeded("ListVariables")
  /\ Len(CallsOf("DeleteVariable")) >= 2
  /\ Marked(komodoVars) \cap expectedKomodoNames # {}

(***************************************************************************)
(* C4  When GetItems fails, Run returns 1 and has made no other call: the  *)
(* store is as the run found it.                                           *)
(***************************************************************************)
C4_FailClosed ==
  FailedCall("GetItems") =>
    /\ Returned
    /\ ret = 1
    /\ Len(calls) = 1
    /\ store = store0

\* GetItems failed in front of a vault with items and a store with an orphan
C4_Witness ==
  /\ Returned
  /\ FailedCall("GetItems")
  /\ vault # <<>>
  /\ Marked(store) # {}


(***************************************************************************)
(* C2  A vault of one item with one field was synced by a failure-free     *)
(* run to a variable that carries the marker; the item is removed and      *)
(* GetItems returns no items: the next failure-free run has deleted that   *)
(* variable when it returns.                                               *)
(***************************************************************************)
\* the vault holds one item with one field of non-empty label and value
OneField(v) ==
  /\ Len(v) = 1
  /\ Len(v[1].fields) = 1
  /\ v[1].fields[1].label # <<>>
  /\ v[1].fields[1].value # ""

\* the name and the value that field is synced to
OneName(v) == formatKomodoName(v[1].title, v[1].fields[1].label)

OneValue(v) == v[1].fields[1].value

\* the run that returns follows a failure-free run over the one-field vault
\* prev.vault, whose variable is in the store, and finds the vault empty
C2_ItemRemoved ==
  /\ Returned
  /\ prev.clean
  /\ OneField(prev.vault)
  /\ OneName(prev.vault) \in Marked(store0)
  /\ store0[OneName(prev.vault)].value = OneValue(prev.vault)
  /\ vault = <<>>
  /\ Succeeded("GetItems")
  /\ Clean(calls)

C2_RemovedItemIsDeleted ==
  C2_ItemRemoved => OneName(prev.vault) \notin DOMAIN store

(***************************************************************************)
(* C5  When GetItemDetails failed for one item of a run, the run returns,  *)
(* every field with label and value of every other item went through the   *)
(* existence check of the create/update phase, and the returned error      *)
(* count is 1 or more.                                                     *)
(***************************************************************************)
\* ids of the items whose GetItemDetails failed in this run
FailedDetails ==
  { calls[i].id : i \in { j \in 1..Len(calls) :
       calls[j].op = "GetItemDetails" /\ calls[j].res = "error" } }

\* the secrets of the items of the vault other than those of the ids in skip
RECURSIVE SecretsExcept(_, _)
SecretsExcept(v, skip) ==
  IF v = <<>> THEN <<>>
  ELSE (IF Head(v).id \in skip THEN <<>>
        ELSE FieldsToSync(Head(v).title, Head(v).fields))
       \o SecretsExcept(Tail(v), skip)

C5_PartialTolerance ==
  (Returned /\ Cardinality(FailedDetails) = 1) =>
    /\ \A i \in 1..Len(SecretsExcept(vault, FailedDetails)) :
         /\ SecretsExcept(vault, FailedDetails)[i] \in
              { secretsToSync[j] : j \in 1..Len(secretsToSync) }
         /\ SecretsExcept(vault, FailedDetails)[i].name \in
              CallNames(CallsOf("GetVariable"))
    /\ ret >= 1


(***************************************************************************)
(* C6  From an empty store and a vault of one item with one field, a       *)
(* failure-free run leaves exactly one variable, holding the field's       *)
(* value.  After the value of the field has changed, a second failure-free *)
(* run leaves exactly one variable, of that name, holding the new value;   *)
(* it calls UpdateVariableValue and does not call CreateVariable.          *)
(***************************************************************************)
\* the first run of the scenario returns
C6_FirstRun ==
  /\ Returned
  /\ store0 = EmptyMap
  /\ OneField(vault)
  /\ Clean(calls)

\* the second run of the scenario returns: the run before was failure-free
\* over the same item with another value and left its one variable
C6_SecondRun ==
  /\ Returned
  /\ prev.clean
  /\ OneField(prev.vault)
  /\ OneField(vault)
  /\ vault[1].id = prev.vault[1].id
  /\ vault[1].title = prev.vault[1].title
  /\ vault[1].fields[1].label = prev.vault[1].fields[1].label
  /\ OneValue(vault) # OneValue(prev.vault)
  /\ DOMAIN store0 = {OneName(prev.vault)}
  /\ store0[OneName(prev.vault)] =
       Variable(OneValue(prev.vault), ManagedDescription, TRUE)
  /\ Clean(calls)

C6_CreateThenUpdate ==
  /\ C6_FirstRun =>
       /\ DOMAIN store = {OneName(vault)}
       /\ store[OneName(vault)].value = OneValue(vault)
       /\ store[OneName(vault)] = Variable(OneValue(vault), ManagedDescription, TRUE)
  /\ C6_SecondRun =>
       /\ DOMAIN store = {OneName(prev.vault)}
       /\ store[OneName(prev.vault)].value = OneValue(vault)
       /\ CallNames(CallsOf("UpdateVariableValue")) = {OneName(prev.vault)}
       /\ CallsOf("CreateVariable") = <<>>

\* the second run of the scenario has returned with the new value in place
C6_Witness ==
  /\ C6_SecondRun
  /\ store[OneName(vault)].value = OneValue(vault)
  /\ Succeeded("UpdateVariableValue")

(***************************************************************************)
(* C7  Idempotence: a failure-free run that follows a failure-free run     *)
(* over the same vault leaves names, values and descriptions of the store  *)
(* as it found them and calls neither CreateVariable nor DeleteVariable.   *)
(***************************************************************************)
\* the run that returns repeats a failure-free run over an unchanged vault
C7_Repeated ==
  /\ Returned
  /\ prev.clean
  /\ prev.vault = vault
  /\ Clean(calls)

C7_Idempotent ==
  C7_Repeated =>
    /\ store = store0
    /\ CallsOf("CreateVariable") = <<>>
    /\ CallsOf("DeleteVariable") = <<>>

\* a repeated run that had two secrets to write and a store to list
C7_Witness ==
  /\ C7_Repeated
  /\ Len(CallsOf("UpdateVariableValue")) >= 2
  /\ Succeeded("ListVariables")
  /\ Marked(store) # {}
  /\ Unmarked(store) # {}


(***************************************************************************)
(* C8  When GetItems succeeded, Run returns the number of secrets whose    *)
(* syncKomodoSecret returned an error, plus the number of DeleteVariable   *)
(* calls that returned an error, plus 1 exactly when ListVariables failed. *)
(***************************************************************************)
Errors(ops) ==
  Cardinality({ i \in 1..Len(calls) : calls[i].op \in ops /\ calls[i].res = "error" })

\* syncKomodoSecret fails in its existence check or in its write
SyncErrors == Errors({"GetVariable", "CreateVariable", "UpdateVariableValue"})

C8_ErrorCount ==
  (Returned /\ Succeeded("GetItems")) =>
    ret = SyncErrors + Errors({"DeleteVariable"}) + Errors({"ListVariables"})

\* a run in which a secret failed to sync and a deletion failed
C8_Witness ==
  /\ Returned
  /\ SyncErrors = 1
  /\ Errors({"DeleteVariable"}) = 1
  /\ ret = 2

(***************************************************************************)
(* C9  When ListVariables failed, the run has called DeleteVariable not    *)
(* once, the store holds what the successful creates and updates of the    *)
(* run made of it, and Run returns the number of failed secrets plus 1.    *)
(***************************************************************************)
\* the store m after the successful writes of the calls cs
RECURSIVE Replay(_, _)
Replay(m, cs) ==
  IF cs = <<>> THEN m
  ELSE LET c == Head(cs)
       IN  Replay(CASE c.res = "ok" /\ c.op = "CreateVariable" ->
                         MapPut(m, c.name, Variable(c.value, ManagedDescription, TRUE))
                    [] c.res = "ok" /\ c.op = "UpdateVariableValue" ->
                         MapPut(m, c.name, [m[c.name] EXCEPT !.value = c.value])
                    [] c.res = "ok" /\ c.op = "DeleteVariable" -> MapDel(m, c.name)
                    [] OTHER -> m,
                  Tail(cs))

C9_ListFailure ==
  FailedCall("ListVariables") =>
    /\ Returned
    /\ CallsOf("DeleteVariable") = <<>>
    /\ store = Replay(store0, calls)
    /\ \A i \in 1..Len(calls) :
         (calls[i].op \in {"CreateVariable", "UpdateVariableValue"} /\ calls[i].res = "ok")
           => calls[i].name \in DOMAIN store
    /\ ret = SyncErrors + 1

\* the listing failed after a create went through and a secret failed, with
\* an orphan waiting in the store
C9_Witness ==
  /\ Returned
  /\ FailedCall("ListVariables")
  /\ Succeeded("CreateVariable")
  /\ SyncErrors = 1
  /\ Marked(store) \ expectedKomodoNames # {}

(***************************************************************************)
(* C10  A failed GetVariable, CreateVariable or UpdateVariableValue does   *)
(* not stop the create/update phase: syncKomodoSecret is called once for   *)
(* every entry of secretsToSync, in the order of the list, and             *)
(* ListVariables is called after the last of them.                         *)
(***************************************************************************)
\* positions of the calls of the create/update phase
SyncPositions ==
  { i \in 1..Len(calls) :
      calls[i].op \in {"GetVariable", "CreateVariable", "UpdateVariableValue"} }

C10_SyncPhaseCompletes ==
  (Returned /\ Succeeded("GetItems") /\ items # <<>>) =>
    /\ Len(CallsOf("GetVariable")) = Len(secretsToSync)
    /\ \A i \in 1..Len(secretsToSync) :
         CallsOf("GetVariable")[i].name = secretsToSync[i].name
    /\ \E l \in 1..Len(calls) :
         /\ calls[l].op = "ListVariables"
         /\ \A i \in SyncPositions : i < l

\* the first of two secrets failed and the second was written
C10_Witness ==
  /\ Returned
  /\ Len(secretsToSync) >= 2
  /\ \E i \in SyncPositions :
       /\ calls[i].res = "error"
       /\ calls[i].name = secretsToSync[1].name
       /\ \E j \in SyncPositions :
            /\ j > i
            /\ calls[j].op \in {"CreateVariable", "UpdateVariableValue"}
            /\ calls[j].res = "ok"
  /\ \E l \in 1..Len(calls) : calls[l].op = "ListVariables"

(***************************************************************************)
(* C11  syncKomodoSecret calls GetVariable first and then exactly one of:  *)
(* UpdateVariableValue(name, value) when the variable was reported found,  *)
(* CreateVariable(name, value, description) when it was reported not       *)
(* found, no write when GetVariable returned an error.  A write follows    *)
(* no other call than the existence check of its own name.                 *)
(***************************************************************************)
\* positions of the GetVariable calls, and the rank of one among them
GetPositions == { i \in 1..Len(calls) : calls[i].op = "GetVariable" }

GetRank(i) == Cardinality({ j \in GetPositions : j <= i })

C11_CheckThenWrite ==
  /\ \A i \in GetPositions :
       /\ calls[i].name = secretsToSync[GetRank(i)].name
       /\ (i = Len(calls)) => (pc = "Write") = (calls[i].res # "error")
       /\ (i < Len(calls)) =>
            CASE calls[i].res = "found" ->
                   /\ calls[i + 1].op = "UpdateVariableValue"
                   /\ calls[i + 1].name = calls[i].name
                   /\ calls[i + 1].value = secretsToSync[GetRank(i)].value
              [] calls[i].res = "notfound" ->
                   /\ calls[i + 1].op = "CreateVariable"
                   /\ calls[i + 1].name = calls[i].name
                   /\ calls[i + 1].value = secretsToSync[GetRank(i)].value
                   /\ calls[i + 1].description = ManagedDescription
              [] OTHER ->
                   calls[i + 1].op \notin {"CreateVariable", "UpdateVariableValue"}
  /\ \A j \in 1..Len(calls) :
       calls[j].op \in {"CreateVariable", "UpdateVariableValue"} =>
         /\ j > 1
         /\ calls[j - 1].op = "GetVariable"
         /\ calls[j - 1].name = calls[j].name
         /\ calls[j - 1].res =
              (IF calls[j].op = "UpdateVariableValue" THEN "found" ELSE "notfound")

\* one run updated a variable that exists and wrote nothing for a secret
\* whose existence check failed
C11_Witness ==
  /\ Returned
  /\ \E i, j \in GetPositions :
       /\ calls[i].res = "found" /\ calls[i + 1].op = "UpdateVariableValue"
       /\ calls[j].res = "error" /\ calls[j + 1].op = "GetVariable"
  /\ Succeeded("UpdateVariableValue")

(***************************************************************************)
(* C12  Every CreateVariable request carries is_secret = true and a        *)
(* description with the marker, and every variable a run has added to the  *)
(* store is secret and carries the marker.                                 *)
(***************************************************************************)
C12_CreatedIsSecret ==
  /\ \A i \in 1..Len(calls) :
       calls[i].op = "CreateVariable" =>
         /\ calls[i].is_secret
         /\ Contains(calls[i].description, <<managedByMarker>>)
  /\ pc # "idle" =>
       \A n \in DOMAIN store \ DOMAIN store0 :
         store[n].is_secret /\ HasMarker(store[n])

\* a run has created a variable next to one that is not secret
C12_Witness ==
  /\ Returned
  /\ Succeeded("CreateVariable")
  /\ DOMAIN store \ DOMAIN store0 # {}
  /\ \E n \in DOMAIN store : ~store[n].is_secret

(***************************************************************************)
(* C13  The phases of a run are strictly ordered: no GetVariable,          *)
(* CreateVariable or UpdateVariableValue call is made before GetItems and  *)
(* every GetItemDetails call have returned, and no ListVariables or        *)
(* DeleteVariable call is made before the last create or update returned.  *)
(***************************************************************************)
PhaseOf(op) ==
  CASE op = "GetItems" -> 1
    [] op = "GetItemDetails" -> 2
    [] op \in {"GetVariable", "CreateVariable", "UpdateVariableValue"} -> 3
    [] op = "ListVariables" -> 4
    [] op = "DeleteVariable" -> 5

\* a call of phase k or later has been made
Reached(k) == \E j \in 1..Len(calls) : PhaseOf(calls[j].op) >= k

\* the calls never go back to an earlier phase, so that the calls of a phase
\* made before a call of a later phase are all the calls of that phase
C13_PhaseOrder ==
  /\ \A i \in 1..(Len(calls) - 1) :
       PhaseOf(calls[i].op) <= PhaseOf(calls[i + 1].op)
  /\ \A j \in 1..Len(calls) : (calls[j].op = "GetItems") = (j = 1)
  /\ Reached(3) =>
       /\ calls[1].res = "ok"
       /\ Len(CallsOf("GetItemDetails")) = Len(vault)
  /\ Reached(4) =>
       /\ Len(CallsOf("GetVariable")) = Len(secretsToSync)
       /\ Len(CallsOf("CreateVariable")) + Len(CallsOf("UpdateVariableValue"))
            = Len(SelectSeq(calls, LAMBDA c : c.op = "GetVariable" /\ c.res # "error"))

\* a run went through every phase: two items, two writes, a deletion
C13_Witness ==
  /\ Returned
  /\ Len(CallsOf("GetItemDetails")) = 2
  /\ Len(CallsOf("CreateVariable")) + Len(CallsOf("UpdateVariableValue")) = 2
  /\ Succeeded("ListVariables")
  /\ Succeeded("DeleteVariable")

(***************************************************************************)
(* C14  Every (name, value) pair of the to-sync list, and so every         *)
(* CreateVariable and UpdateVariableValue call, has a non-empty name and a *)
(* non-empty value: a field with an empty label or an empty value          *)
(* contributes neither an entry nor an expected name.                      *)
(***************************************************************************)
\* the (name, value) pairs of the fields of v that have a label and a value
NonEmptyFieldPairs(v) ==
  UNION { { [name  |-> formatKomodoName(v[i].title, v[i].fields[j].label),
             value |-> v[i].fields[j].value] :
            j \in { k \in 1..Len(v[i].fields) :
                      v[i].fields[k].label # <<>> /\ v[i].fields[k].value # "" } } :
          i \in 1..Len(v) }

C14_NoEmptyEntry ==
  /\ \A i \in 1..Len(secretsToSync) :
       /\ secretsToSync[i].name # <<>>
       /\ secretsToSync[i].value # ""
  /\ \A i \in 1..Len(calls) :
       /\ PhaseOf(calls[i].op) = 3 => calls[i].name # <<>>
       /\ calls[i].op \in {"CreateVariable", "UpdateVariableValue"} =>
            calls[i].value # ""
  /\ (secretsToSync # <<>> \/ expectedKomodoNames # {}) =>
       LET pairs == NonEmptyFieldPairs(vault)
       IN  /\ \A i \in 1..Len(secretsToSync) : secretsToSync[i] \in pairs
           /\ expectedKomodoNames \subseteq { p.name : p \in pairs }

\* a run has synced the one complete field of an item that also has a field
\* without a label and a field without a value
C14_Witness ==
  /\ Returned
  /\ \E i \in 1..Len(vault) :
       /\ \E j \in 1..Len(vault[i].fields) : vault[i].fields[j].label = <<>>
       /\ \E j \in 1..Len(vault[i].fields) : vault[i].fields[j].value = ""
       /\ \E j \in 1..Len(vault[i].fields) :
            /\ ~SkipField(vault[i].fields[j])
            /\ formatKomodoName(vault[i].title, vault[i].fields[j].label)
                 \in expectedKomodoNames
            /\ \E c \in 1..Len(calls) :
                 /\ calls[c].op \in {"CreateVariable", "UpdateVariableValue"}
                 /\ calls[c].res = "ok"
                 /\ calls[c].name =
                      formatKomodoName(vault[i].title, vault[i].fields[j].label)
       /\ Len(secretsToSync) = Len(vault)

(***************************************************************************)
(* C15  When two fields of the vault format to the same name, a run        *)
(* without failures leaves one variable of that name, whose value is the   *)
(* value of the field that comes later: items in GetItems order, fields in *)
(* item order.                                                             *)
(***************************************************************************)
\* the complete fields of the vault in iteration order
SourcePairs == SecretsExcept(vault, {})

\* the position of the last field that formats to name n
LastOf(n) ==
  CHOOSE i \in 1..Len(SourcePairs) :
    /\ SourcePairs[i].name = n
    /\ \A j \in 1..Len(SourcePairs) : SourcePairs[j].name = n => j <= i

\* two fields of different values format to one name
Aliased ==
  \E i, j \in 1..Len(SourcePairs) :
    /\ i < j
    /\ SourcePairs[i].name = SourcePairs[j].name
    /\ SourcePairs[i].value # SourcePairs[j].value

C15_LaterFieldWins ==
  (Returned /\ Clean(calls) /\ calls # <<>>) =>
    \A n \in Names(SourcePairs) :
      /\ n \in DOMAIN store
      /\ store[n].value = SourcePairs[LastOf(n)].value

C15_Witness ==
  /\ Returned
  /\ Clean(calls)
  /\ Aliased
  /\ Succeeded("UpdateVariableValue")

(***************************************************************************)
(* C16  When two fields format to the same name, the to-sync list holds    *)
(* one entry for that name, so that one existence check and one write are  *)
(* issued for it in the run.                                               *)
(***************************************************************************)
C16_OneEntryPerName ==
  /\ \A i, j \in 1..Len(secretsToSync) :
       i # j => secretsToSync[i].name # secretsToSync[j].name
  /\ \A n \in expectedKomodoNames :
       /\ Len(SelectSeq(calls, LAMBDA c : c.op = "GetVariable" /\ c.name = n)) <= 1
       /\ Len(SelectSeq(calls, LAMBDA c :
                c.op \in {"CreateVariable", "UpdateVariableValue"} /\ c.name = n)) <= 1

\* the expand phase is over
Expanded ==
  /\ pc \notin {"idle", "GetItems", "GetItemDetails"}
  /\ Len(CallsOf("GetItemDetails")) = Len(vault)
  /\ vault # <<>>

\* C16 as the code has it: the to-sync list holds one entry per complete
\* field, in iteration order, so that an aliased name has as many existence
\* checks as fields and the entry of the later field is synced last; the
\* expected-name set holds the name once.
C16_OneEntryPerField ==
  /\ Expanded =>
       /\ secretsToSync = SecretsExcept(vault, FailedDetails)
       /\ expectedKomodoNames = Names(secretsToSync)
  /\ (Expanded /\ pc \in {"ListVariables", "Range", "done"}) =>
       \A n \in expectedKomodoNames :
         Len(SelectSeq(calls, LAMBDA c : c.op = "GetVariable" /\ c.name = n))
           = Len(SelectSeq(secretsToSync, LAMBDA e : e.name = n))

\* a run has checked and written an aliased name twice
C16_Witness ==
  /\ Returned
  /\ Aliased
  /\ \E n \in expectedKomodoNames :
       /\ Len(SelectSeq(secretsToSync, LAMBDA e : e.name = n)) = 2
       /\ Len(SelectSeq(calls, LAMBDA c : c.op = "GetVariable" /\ c.name = n)) = 2
       /\ \E i, j \in 1..Len(calls) :
            /\ i < j
            /\ calls[i].op = "CreateVariable" /\ calls[i].name = n /\ calls[i].res = "ok"
            /\ calls[j].op = "UpdateVariableValue" /\ calls[j].name = n
            /\ calls[j].res = "ok"

(***************************************************************************)
(* C17  GetVariable returns found = false with a nil error whenever the    *)
(* reply has status 404 or is an error payload whose message contains,     *)
(* case-insensitively, "no variable found" or "not found", whatever its    *)
(* HTTP status; it returns found = true only for a variable record.        *)
(***************************************************************************)
\* the reply is an error payload whose message says not found
NotFoundMessage(r) ==
  /\ r.json
  /\ \/ Contains(ToLower(r.error), <<"no", "variable", "found">>)
     \/ Contains(ToLower(r.error), <<"not", "found">>)

\* the reply is a variable record: a 2xx JSON body without an error field
IsRecord(r) == r.status \in 200..299 /\ r.json /\ r.error = <<>>

C17_GetNotFoundRule ==
  probe.kind = "GetVariable" =>
    /\ (probe.reply.status = StatusNotFound \/ NotFoundMessage(probe.reply))
         => probe.result = "notfound"
    /\ probe.result = "found" => IsRecord(probe.reply)

(***************************************************************************)
(* C18  DeleteVariable returns nil for a reply with status 404, whatever   *)
(* its body, and for a non-2xx error payload whose message says not found; *)
(* for any other failure it returns an error.                              *)
(***************************************************************************)
C18_DeleteAbsentRule ==
  (probe.kind = "DeleteVariable" /\ makeRequestFails(probe.reply)) =>
    (probe.result = "ok") =
      (probe.reply.status = StatusNotFound \/ NotFoundMessage(probe.reply))

(***************************************************************************)
(* C19  GetVariable and DeleteVariable apply the same not-found rule: on   *)
(* every reply GetVariable answers not found if and only if DeleteVariable *)
(* returns nil without having deleted.                                     *)
(***************************************************************************)
C19_SameRule ==
  probe.kind \in {"GetVariable", "DeleteVariable"} =>
    (GetVariable(probe.reply) = "notfound")
      = (makeRequestFails(probe.reply) /\ DeleteVariable(probe.reply) = "ok")

(***************************************************************************)
(* C20  formatKomodoName replaces each run of whitespace of the title and  *)
(* of the label by one hyphen that is in the returned name, and            *)
(* upper-cases: "My Service API", "API Key" gives MY-SERVICE-API__API-KEY. *)
(***************************************************************************)
C20_HyphenExample ==
  probe.kind = "formatKomodoName" =>
    /\ (probe.itemName = ExampleTitle /\ probe.fieldLabel = ExampleLabel) =>
         probe.result = <<"M", "Y", "-", "S", "E", "R", "V", "I", "C", "E", "-", "A", "P", "I", "_", "_", "A", "P", "I", "-", "K", "E", "Y">>
    /\ (\E i \in 1..Len(probe.itemName) : probe.itemName[i] \in Whitespace) =>
         \E i \in 1..Len(probe.result) : probe.result[i] = "-"

(***************************************************************************)
(* C21  formatKomodoName is a pure function with no static prefix: for an  *)
(* empty field label it returns exactly the upper-cased sanitized item     *)
(* title with no trailing separator, for a non-empty label exactly the     *)
(* sanitized title, then "__", then the sanitized label; a second call     *)
(* with the same arguments returns the same name.                          *)
(***************************************************************************)
\* s sanitized: every maximal run of characters outside [a-zA-Z0-9_] is one
\* underscore and the letters are upper-case
Sanitized(s) == ToUpper(ReplaceRuns(s, NonWordChars, "_"))

C22_MasksAfterFirst ==
  probe.kind = "sanitizeNameForLog" =>
    LET parts == Split(probe.name, <<>>)
    IN  probe.result =
          Join([i \in 1..Len(parts) |->
                  IF i = 1 THEN parts[i]
                  ELSE IF Len(parts[i]) > 2 THEN SubSeq(parts[i], 1, 2) \o Mask
                       ELSE Mask])

(***************************************************************************)
(* C23  In one-off mode the process exits with status 1 if Run returned a  *)
(* count greater than 0 and with status 0 if it returned 0, after exactly  *)
(* one run.                                                                *)
(***************************************************************************)
C23_OneOffExit ==
  (proc.at = "exited" /\ proc.mode = "oneoff" /\ proc.config = "ok") =>
    /\ proc.runs = 1
    /\ proc.result > 0 => proc.status = 1
    /\ proc.result = 0 => proc.status = 0
    /\ proc.status \in {0, 1}

\* a one-off run with errors has ended the process
C23_Witness ==
  /\ proc.at = "exited"
  /\ proc.mode = "oneoff"
  /\ proc.result > 0
  /\ proc.status = 1

(***************************************************************************)
(* C24  In daemon mode a run that returns a non-zero count never ends the  *)
(* process: the loop waits for the next tick and starts a further run      *)
(* unless a shutdown signal has arrived, and only a signal ends the loop.  *)
(***************************************************************************)
C24_ErrorsKeepDaemon ==
  /\ [](proc.at = "exited" /\ proc.mode = "daemon" /\ proc.runs > 0
          => proc.why = "signal" /\ proc.signalled)
  /\ (proc.at = "select" /\ proc.result > 0)
       ~> (proc.at = "Run" \/ proc.signalled)

\* after a run with errors the daemon is in a further run
C24_Witness ==
  /\ proc.mode = "daemon"
  /\ proc.at = "Run"
  /\ proc.result > 0
  /\ proc.runs >= 2
  /\ ~proc.signalled

(***************************************************************************)
(* C25  In daemon mode the first run starts before any tick is consumed,   *)
(* and runs never overlap: a call of Run starts only after the one before  *)
(* has returned, even when a tick arrives while a run is in flight.        *)
(***************************************************************************)
C25_NoOverlap ==
  proc.at # "none" =>
    /\ proc.inflight <= 1
    /\ (proc.at = "Run") = (proc.inflight = 1)
    /\ proc.ticks > 0 => proc.runs >= 1
    /\ (proc.mode = "daemon" /\ proc.at = "select") => proc.runs >= 1

\* a tick has arrived while a run that a tick started is in flight
C25_Witness ==
  /\ proc.mode = "daemon"
  /\ proc.at = "Run"
  /\ proc.tick = 1
  /\ proc.ticks >= 1

(***************************************************************************)
(* C26  Whenever LoadConfig succeeds, OpConnectHost and KomodoHost both    *)
(* start with "http://" or "https://" and do not end with "/", for every   *)
(* non-empty value of OP_CONNECT_HOST and KOMODO_HOST.                     *)
(***************************************************************************)
\* h starts with a URL scheme
HasScheme(h) ==
  \/ Len(h) >= Len(HttpScheme) /\ SubSeq(h, 1, Len(HttpScheme)) = HttpScheme
  \/ Len(h) >= Len(HttpsScheme) /\ SubSeq(h, 1, Len(HttpsScheme)) = HttpsScheme

Normalized(h) == HasScheme(h) /\ h[Len(h)] # "/"

C26_HostsNormalized ==
  (probe.kind = "LoadConfig" /\ ~probe.result.err) =>
    /\ Normalized(probe.result.OpConnectHost)
    /\ Normalized(probe.result.KomodoHost)

(***************************************************************************)
(* C27  At every log level and along every run, no log line contains the   *)
(* 1Password service-account token, the Komodo API key or the Komodo API   *)
(* secret.                                                                 *)
(***************************************************************************)
Credentials == {Cfg.OpServiceAccountToken, Cfg.KomodoAPIKey, Cfg.KomodoAPISecret}

WordsOf(line) == { line[i] : i \in 1..Len(line) }

Rejected == { j \in 1..Len(calls) :
                calls[j].op = "CreateVariable" /\ calls[j].res = "error" }

RECURSIVE SyncAll(_, _)
SyncAll(m, secrets) ==
  IF secrets = <<>> THEN m
  ELSE LET s == Head(secrets)
       IN  SyncAll(IF s.name \in DOMAIN m
                   THEN MapPut(m, s.name, [m[s.name] EXCEPT !.value = s.value])
                   ELSE MapPut(m, s.name, Variable(s.value, ManagedDescription, TRUE)),
                   Tail(secrets))

\* the store after an uninterrupted failure-free run over vault v from store m
Uninterrupted(m, v) ==
  IF v = <<>> THEN m
  ELSE LET synced == SyncAll(m, SecretsExcept(v, {}))
           kept   == { n \in DOMAIN synced :
                         ~HasMarker(synced[n]) \/ n \in Names(SecretsExcept(v, {})) }
       IN  [n \in kept |-> synced[n]]

C29_SelfHealing ==
  (Returned /\ Crashes > 0) => store = Uninterrupted(prev.store, vault)

\* a run has completed what a crashed run had begun: the crashed run had
\* written to the store, and the run after it has written more
C29_Witness ==
  /\ Returned
  /\ Crashes > 0
  /\ store0 # prev.store
  /\ store # store0
  /\ Succeeded("UpdateVariableValue")
  /\ Succeeded("DeleteVariable")

(***************************************************************************)
(* C30  When GetItemDetails fails for an item, the variables that carry    *)
(* the marker and are named after that item's fields are not deleted in    *)
(* that run.                                                               *)
(***************************************************************************)
\* the entries the items whose detail fetch failed would have given
FailedSecrets ==
  SecretsExcept(vault, { vault[i].id : i \in 1..Len(vault) } \ FailedDetails)

C30_FailedItemKept ==
  \A i \in 1..Len(calls) :
    (calls[i].op = "DeleteVariable" /\ calls[i].res = "ok") =>
      ~(calls[i].name \in Names(FailedSecrets) /\ calls[i].name \in Marked(store0))

(***************************************************************************)
(* C31  No UpdateVariableValue call targets a variable whose description   *)
(* lacks the marker "1Password-Sync:", even when its name is an expected   *)
(* name.                                                                   *)
(***************************************************************************)
C31_NoUpdateOfUnmarked ==
  \A i \in 1..Len(calls) :
    calls[i].op = "UpdateVariableValue" => calls[i].name \notin Unmarked(store0)

(***************************************************************************)
(* C32  No name of the run's expected names is passed to DeleteVariable in *)
(* that run; a variable the create/update phase wrote or failed to write   *)
(* is not deleted by the orphan phase of the same run.                     *)
(***************************************************************************)
WrittenNames ==
  { calls[i].name : i \in { j \in 1..Len(calls) :
       calls[j].op \in {"CreateVariable", "UpdateVariableValue"} } }

DeletedNames ==
  { calls[i].name : i \in { j \in 1..Len(calls) : calls[j].op = "DeleteVariable" } }

C32_ExpectedNeverDeleted ==
  /\ DeletedNames \cap expectedKomodoNames = {}
  /\ DeletedNames \cap WrittenNames = {}
  /\ DeletedNames \cap Names(secretsToSync) = {}

\* a run wrote one variable, failed to write another and deleted an orphan
C32_Witness ==
  /\ Returned
  /\ DeletedNames # {}
  /\ \E i, j \in 1..Len(calls) :
       /\ calls[i].op \in {"CreateVariable", "UpdateVariableValue"}
       /\ calls[i].res = "ok"
       /\ calls[j].op \in {"CreateVariable", "UpdateVariableValue"}
       /\ calls[j].res = "error"
  /\ WrittenNames \subseteq expectedKomodoNames

(***************************************************************************)
(* C33  In daemon mode, once a shutdown signal has been delivered, no new  *)
(* call of Synchronizer.Run is started: a run in flight finishes and the   *)
(* loop then exits, even when a tick is pending at the same time.          *)
(***************************************************************************)
C33_NoRunAfterSignal ==
  [][(proc.mode = "daemon" /\ proc.signalled /\ proc.at # "Run") => proc'.at # "Run"]_vars

====
